---- MODULE Spec2Model ----
(***************************************************************************)
(* A model of src/src/App.js: the paint canvas with its undo and redo      *)
(* stacks.  The canvas is a row of sampled pixels holding premultiplied    *)
(* 8-bit colour and alpha; a snapshot (data URL) is the PNG encoding of    *)
(* the row, whose pixels are not premultiplied.  Every handler of the      *)
(* component is one action; the load event of an Image created by          *)
(* restoreState is an action of its own, because it fires on a later turn  *)
(* of the event loop.                                                      *)
(***************************************************************************)
EXTENDS Integers, Sequences, FiniteSets, TLC

\* ------------------------------------------------------------ bounds
\* Sampled pixels of the canvas, one every Pitch canvas units.
NPix == 2
\* Pointer positions the mouse events report.
NPoints == 1
\* Paths begun (mouse-downs) in one session.
MaxStrokes == 2
\* Changes of the brush in one session.
MaxChanges == 1
\* Image loads that may be pending at once.
MaxPending == 2
\* lineTo calls explored in one path.
MaxPath == 1

\* Distance, in canvas units, between two sampled pixels.
Pitch == 10

Pixels == 1..NPix
\* Pointer positions (offsetX) are those of the first sampled pixels.
Points == 1..NPoints

\* ------------------------------------------------------------ values
Opaque == (2 ^ 8) - 1

\* A JavaScript number and the string a form field delivers are different
\* values to React (Object.is), though the canvas coerces both alike.
Num(n) == [t |-> "number", v |-> n]
Str(n) == [t |-> "string", v |-> n]

\* x / d rounded to the nearest integer.
RoundDiv(x, d) == ((2 * x) + d) \div (2 * d)

\* The red channel of a CSS colour, as the canvas parses strokeStyle.
Ink(color) == IF color = "#ff0000" THEN Opaque ELSE 0

Transparent == [c |-> 0, a |-> 0]
Blank == [i \in Pixels |-> Transparent]

\* The source pixel of a stroke: colour premultiplied by globalAlpha
\* (hundredths).
Source(ink, alpha) ==
    LET a == RoundDiv(Opaque * alpha, 100)
    IN  [c |-> RoundDiv(ink * a, Opaque), a |-> a]

\* source-over compositing of premultiplied pixels.
Blend(src, dst) ==
    [c |-> src.c + RoundDiv(dst.c * (Opaque - src.a), Opaque),
     a |-> src.a + RoundDiv(dst.a * (Opaque - src.a), Opaque)]

\* canvas.toDataURL(): a PNG holds colour that is not premultiplied.
Unpremultiply(p) ==
    [c |-> IF p.a = 0 THEN 0 ELSE RoundDiv(p.c * Opaque, p.a), a |-> p.a]
ToDataURL(cv) == [i \in Pixels |-> Unpremultiply(cv[i])]

\* Decoding a data URL into an Image premultiplies again.
Premultiply(p) == [c |-> RoundDiv(p.c * p.a, Opaque), a |-> p.a]
Decode(url) == [i \in Pixels |-> Premultiply(url[i])]

\* ctx.drawImage(img, 0, 0) under globalAlpha (hundredths) onto cv.
DrawImage(img, alpha, cv) ==
    [i \in Pixels |->
        Blend([c |-> RoundDiv(img[i].c * alpha, 100),
               a |-> RoundDiv(img[i].a * alpha, 100)], cv[i])]

\* Twice the distance from pixel i to the segment from point p to point q.
Dist2(i, p, q) ==
    LET lo == IF p < q THEN p ELSE q
        hi == IF p < q THEN q ELSE p
    IN  IF i < lo THEN 2 * Pitch * (lo - i)
        ELSE IF i > hi THEN 2 * Pitch * (i - hi)
        ELSE 0

\* The pixels a stroke of the path covers: those within half the line width
\* of one of its segments (round caps and joins).
Covered(path, width) ==
    {i \in Pixels :
        \E k \in 1..(Len(path) - 1) : Dist2(i, path[k], path[k + 1]) <= width}

\* ctx.stroke(): the whole current path is painted once, with the context's
\* style as it is now.
Stroke(c, cv) ==
    [i \in Pixels |->
        IF i \in Covered(c.path, c.lineWidth)
        THEN Blend(Source(Ink(c.strokeStyle), c.globalAlpha), cv[i])
        ELSE cv[i]]

\* ctx.closePath(): a path with a segment gets a closing segment back to
\* its first point.
ClosePath(path) == IF Len(path) > 1 THEN Append(path, path[1]) ELSE path

\* ------------------------------------------------------------ state
VARIABLES
    isDrawing,      \* useState(false)
    lineWidth,      \* useState(5)
    lineColor,      \* useState("black")
    lineOpacity,    \* useState(0.1), in hundredths
    undoStack,      \* useState([]): data URLs, oldest first
    redoStack,      \* useState([]): data URLs, next to redo first
    canvas,         \* the pixels of the canvas element
    ctx,            \* the 2d context: globalAlpha, strokeStyle, lineWidth, path
    images,         \* Images whose load has not fired: their data URLs
    formValues,     \* BrushSettingsForm's useState
    errors,         \* BrushSettingsForm's useState
    run,            \* the requests since mount, while they follow a scenario
    begun,          \* paths begun since mount
    probe           \* what the last events were, and the canvas before them

vars == <<isDrawing, lineWidth, lineColor, lineOpacity, undoStack, redoStack,
          canvas, ctx, images, formValues, errors, run, begun,
          probe>>

state == <<isDrawing, lineWidth, lineColor, lineOpacity>>
form == <<formValues, errors>>

\* ------------------------------------------------------------ scenarios
Other == <<"other">>
IsPrefix(s, t) == Len(s) <= Len(t) /\ SubSeq(t, 1, Len(s)) = s

\* The runs of spec section 8, in which no brush changes and no image
\* fails to decode ...
Scenarios ==
    {<<"stroke", "stroke", "undo", "undo", "redo">>,
     <<"stroke", "undo", "stroke">>,
     <<"undo">>,
     <<"redo">>}
\* ... and the runs of strokes alone.
OnlyStrokes(r) == \A k \in 1..Len(r) : r[k] = "stroke"
Followed(r) == OnlyStrokes(r) \/ \E s \in Scenarios : IsPrefix(r, s)
Log(r, request) ==
    IF r # Other /\ Followed(Append(r, request)) THEN Append(r, request) ELSE Other
\* The requests of a scenario come one after the other: a click on Undo or
\* Redo while a stroke is in progress ends it.
Click(r, request) == IF isDrawing THEN Other ELSE Log(r, request)

\* The phases of the probe: "undo" and "redo" (an undo, and the redo right
\* after it), "move" (a mouse-move taken while idle), "error" (an image
\* that failed to decode), "change" and "repaint" (a change of the brush,
\* and the next mouse-move of the stroke it came in).
NoProbe == [phase |-> "none", before |-> Blank]
Probe(phase, cv) == [phase |-> phase, before |-> cv]

\* ------------------------------------------------------------ the form
FormDefaults == [color |-> "#000000", width |-> 5, opacity |-> 10]
\* useState({}): no field has an error yet.
Undefined == "undefined"
NoErrors == [color |-> Undefined, width |-> Undefined, opacity |-> Undefined]

\* BrushSettingsForm is defined inside App: every render of App makes it a
\* new component type, so React mounts it afresh with its initial state.
Remount == formValues' = FormDefaults /\ errors' = NoErrors

\* ------------------------------------------------------------ Init
\* A save that replaces the history instead of appending to it.
SaveStateReplaces(stack, cv) == <<ToDataURL(cv)>>

\* saveState: setUndoStack((prev) => [...prev, dataUrl])
SaveState(stack, cv) == Append(stack, ToDataURL(cv))

\* The effect's set-up of the context from the brush just rendered; the
\* canvas coerces the width, a number or a string, to a number.
Effect(c) ==
    [c EXCEPT !.globalAlpha = lineOpacity',
              !.strokeStyle = lineColor',
              !.lineWidth = lineWidth'.v]

\* The state after the first render and its effect: the context is set up
\* from the initial brush and the blank canvas is saved.
Init ==
    /\ isDrawing = FALSE
    /\ lineWidth = Num(5)
    /\ lineColor = "black"
    /\ lineOpacity = 10
    /\ redoStack = <<>>
    /\ canvas = Blank
    /\ undoStack = SaveState(<<>>, Blank)
    /\ ctx = [globalAlpha |-> 10, strokeStyle |-> "black", lineWidth |-> 5,
              path |-> <<>>]
    /\ images = <<>>
    /\ formValues = FormDefaults
    /\ errors = NoErrors
    /\ run = <<>>
    /\ begun = 0
    /\ probe = NoProbe

\* ------------------------------------------------------------ pointer
\* onMouseDown
StartDrawing(p) ==
    /\ begun < MaxStrokes
    /\ ctx' = [ctx EXCEPT !.path = <<p>>]
    /\ isDrawing' = TRUE
    /\ IF isDrawing THEN UNCHANGED form ELSE Remount
    /\ begun' = begun + 1
    /\ probe' = NoProbe
    /\ UNCHANGED <<lineWidth, lineColor, lineOpacity, undoStack, redoStack,
                   canvas, images, run>>

\* A mouse-move that paints whether or not a stroke is in progress.
DrawUpToAlways(p, n) ==
    /\ Len(ctx.path) <= n
    /\ ctx' = [ctx EXCEPT !.path = Append(@, p)]
    /\ canvas' = Stroke(ctx', canvas)
    /\ probe' = IF isDrawing THEN NoProbe ELSE Probe("move", canvas)
    /\ UNCHANGED <<state, form, undoStack, redoStack, images, run, begun>>

\* onMouseMove, explored while the path has at most n lineTo calls behind it.
DrawUpTo(p, n) ==
    /\ IF ~isDrawing
       THEN /\ UNCHANGED <<ctx, canvas>>
            /\ probe' = Probe("move", canvas)
       ELSE /\ Len(ctx.path) <= n
            /\ ctx' = [ctx EXCEPT !.path = Append(@, p)]
            /\ canvas' = Stroke(ctx', canvas)
            /\ probe' = IF probe.phase = "change"
                         THEN [probe EXCEPT !.phase = "repaint"]
                         ELSE NoProbe
    /\ UNCHANGED <<state, form, undoStack, redoStack, images, run, begun>>

Draw(p) == DrawUpTo(p, MaxPath)

\* A mouse-up that forgets setRedoStack([]).
EndDrawingKeepsRedo ==
    /\ probe' = NoProbe
    /\ IF isDrawing
       THEN /\ ctx' = [ctx EXCEPT !.path = ClosePath(@)]
            /\ isDrawing' = FALSE
            /\ undoStack' = Append(undoStack, ToDataURL(canvas))
            /\ UNCHANGED redoStack
            /\ Remount
            /\ run' = Log(run, "stroke")
       ELSE UNCHANGED <<ctx, isDrawing, undoStack, redoStack, form, run>>
    /\ UNCHANGED <<lineWidth, lineColor, lineOpacity, canvas, images, begun>>

\* A mouse-up that commits whether or not a stroke is in progress.
EndDrawingUnguarded ==
    /\ probe' = NoProbe
    /\ ctx' = [ctx EXCEPT !.path = ClosePath(@)]
    /\ isDrawing' = FALSE
    /\ undoStack' = SaveState(undoStack, canvas)
    /\ redoStack' = <<>>
    /\ Remount
    /\ run' = Log(run, "stroke")
    /\ UNCHANGED <<lineWidth, lineColor, lineOpacity, canvas, images, begun>>

\* onMouseUp
EndDrawing ==
    /\ probe' = NoProbe
    /\ IF isDrawing
       THEN /\ ctx' = [ctx EXCEPT !.path = ClosePath(@)]
            /\ isDrawing' = FALSE
            /\ undoStack' = SaveState(undoStack, canvas)
            /\ redoStack' = <<>>
            /\ Remount
            /\ run' = Log(run, "stroke")
       ELSE UNCHANGED <<ctx, isDrawing, undoStack, redoStack, form, run>>
    /\ UNCHANGED <<lineWidth, lineColor, lineOpacity, canvas, images, begun>>

\* ------------------------------------------------------------ history
\* A restore that starts no load.
RestoreStateDropped(pending, dataUrl) == pending

\* restoreState(dataUrl): a new Image starts loading; nothing is drawn yet.
RestoreState(pending, dataUrl) == Append(pending, dataUrl)

Front(s) == SubSeq(s, 1, Len(s) - 1)
Last(s) == s[Len(s)]

\* An undo whose guard is off by one: it pops the last entry too, and
\* restores what it popped.
HandleUndoOffByOne ==
    /\ run' = Click(run, "undo")
    /\ IF Len(undoStack) > 0
       THEN /\ Len(images) < MaxPending
            /\ redoStack' = <<Last(undoStack)>> \o redoStack
            /\ undoStack' = Front(undoStack)
            /\ images' = Append(images, Last(undoStack))
            /\ Remount
            /\ probe' = [phase |-> "undo", before |-> canvas]
       ELSE /\ UNCHANGED <<undoStack, redoStack, images, form>>
            /\ probe' = NoProbe
    /\ UNCHANGED <<state, canvas, ctx, begun>>

\* An undo that puts the popped entry behind the entries of the redo stack.
HandleUndoPushesBack ==
    /\ run' = Click(run, "undo")
    /\ IF Len(undoStack) > 1
       THEN /\ Len(images) < MaxPending
            /\ redoStack' = Append(redoStack, Last(undoStack))
            /\ undoStack' = Front(undoStack)
            /\ images' = RestoreState(images, Last(Front(undoStack)))
            /\ Remount
            /\ probe' = [phase |-> "undo", before |-> canvas]
       ELSE /\ UNCHANGED <<undoStack, redoStack, images, form>>
            /\ probe' = NoProbe
    /\ UNCHANGED <<state, canvas, ctx, begun>>

\* the Undo button
HandleUndo ==
    /\ run' = Click(run, "undo")
    /\ IF Len(undoStack) > 1
       THEN /\ Len(images) < MaxPending
            /\ LET newUndoStack == Front(undoStack)
                   lastState == Last(undoStack)
               IN  /\ redoStack' = <<lastState>> \o redoStack
                   /\ undoStack' = newUndoStack
                   /\ images' = RestoreState(images, Last(newUndoStack))
            /\ Remount
            /\ probe' = [phase |-> "undo", before |-> canvas]
       ELSE /\ UNCHANGED <<undoStack, redoStack, images, form>>
            /\ probe' = NoProbe
    /\ UNCHANGED <<state, canvas, ctx, begun>>

\* A redo that, with nothing to redo, restores the current state again.
HandleRedoAlwaysRestores ==
    /\ run' = Click(run, "redo")
    /\ Len(images) < MaxPending
    /\ IF Len(redoStack) > 0
       THEN /\ redoStack' = Tail(redoStack)
            /\ undoStack' = Append(undoStack, Head(redoStack))
            /\ images' = Append(images, Head(redoStack))
       ELSE /\ UNCHANGED <<undoStack, redoStack>>
            /\ images' = Append(images, Last(undoStack))
    /\ Remount
    /\ probe' = NoProbe
    /\ UNCHANGED <<state, canvas, ctx, begun>>

\* A redo that takes the last entry of the redo stack (pop for shift).
HandleRedoPops ==
    /\ run' = Click(run, "redo")
    /\ IF Len(redoStack) > 0
       THEN /\ Len(images) < MaxPending
            /\ redoStack' = Front(redoStack)
            /\ undoStack' = Append(undoStack, Last(redoStack))
            /\ images' = RestoreState(images, Last(redoStack))
            /\ Remount
            /\ probe' = IF probe.phase = "undo"
                         THEN [probe EXCEPT !.phase = "redo"]
                         ELSE NoProbe
       ELSE /\ UNCHANGED <<undoStack, redoStack, images, form>>
            /\ probe' = NoProbe
    /\ UNCHANGED <<state, canvas, ctx, begun>>

\* the Redo button
HandleRedo ==
    /\ run' = Click(run, "redo")
    /\ IF Len(redoStack) > 0
       THEN /\ Len(images) < MaxPending
            /\ LET newRedoStack == Tail(redoStack)
                   nextState == Head(redoStack)
               IN  /\ redoStack' = newRedoStack
                   /\ undoStack' = Append(undoStack, nextState)
                   /\ images' = RestoreState(images, nextState)
            /\ Remount
            /\ probe' = IF probe.phase = "undo"
                         THEN [probe EXCEPT !.phase = "redo"]
                         ELSE NoProbe
       ELSE /\ UNCHANGED <<undoStack, redoStack, images, form>>
            /\ probe' = NoProbe
    /\ UNCHANGED <<state, canvas, ctx, begun>>

\* ------------------------------------------------------------ images
Remove(s, k) == SubSeq(s, 1, k - 1) \o SubSeq(s, k + 1, Len(s))

\* An onload that draws the image under the brush's opacity.
OnLoadUnderBrush(img, c, cv) ==
    [canvas |-> DrawImage(img, c.globalAlpha, Blank), ctx |-> c]

\* img.onload: clear the canvas and draw the image at full opacity; the
\* context's globalAlpha is put back afterwards.
OnLoad(img, c, cv) ==
    LET currentAlpha == c.globalAlpha
        drawn == DrawImage(img, 100, Blank)
    IN  [canvas |-> drawn, ctx |-> [c EXCEPT !.globalAlpha = currentAlpha]]

\* The load event of one pending Image; the browser does not order the
\* loads of different Images.
ImageLoaded(k) ==
    /\ k \in 1..Len(images)
    /\ LET done == OnLoad(Decode(images[k]), ctx, canvas)
       IN  canvas' = done.canvas /\ ctx' = done.ctx
    /\ images' = Remove(images, k)
    /\ probe' = IF probe.phase \in {"undo", "redo"} THEN probe ELSE NoProbe
    /\ UNCHANGED <<state, form, undoStack, redoStack, run, begun>>

\* An error event that leaves the canvas cleared.
ImageErrorClears(k) ==
    /\ k \in 1..Len(images)
    /\ images' = Remove(images, k)
    /\ canvas' = Blank
    /\ run' = Other
    /\ probe' = Probe("error", canvas)
    /\ UNCHANGED <<state, form, undoStack, redoStack, ctx, begun>>

\* The error event of a pending Image: no handler is set, nothing is drawn.
ImageError(k) ==
    /\ k \in 1..Len(images)
    /\ images' = Remove(images, k)
    /\ run' = Other
    /\ probe' = Probe("error", canvas)
    /\ UNCHANGED <<state, form, undoStack, redoStack, canvas, ctx, begun>>

\* ------------------------------------------------------------ the form
\* A validation that lets every value through.
validateFormLoose(name, value) == ""

validateForm(name, value) ==
    CASE name = "width" ->
            IF value >= 3 /\ value <= 20 THEN ""
            ELSE "Width must be between 3 and 20"
      [] name = "opacity" ->
            IF value >= 1 /\ value <= 100 THEN ""
            ELSE "Opacity must be between 1 and 100"
      [] OTHER -> ""

\* The brush of App's state, and what a field's value sets in it.
Brush == [lineWidth |-> lineWidth, lineColor |-> lineColor,
          lineOpacity |-> lineOpacity]
Applied(name, value) ==
    CASE name = "color" -> [Brush EXCEPT !.lineColor = value]
      [] name = "width" -> [Brush EXCEPT !.lineWidth = Str(value)]
      [] name = "opacity" -> [Brush EXCEPT !.lineOpacity = value]

\* The fields of the brush that no longer hold their initial value: with
\* FieldValues below no field returns to it, so this counts the changes.
Changes ==
    (IF lineWidth = Num(5) THEN 0 ELSE 1)
    + (IF lineColor = "black" THEN 0 ELSE 1)
    + (IF lineOpacity = 10 THEN 0 ELSE 1)

\* The values the fields deliver: one in range for each field, and one out
\* of range for width and opacity.
FieldValues(name) ==
    CASE name = "color" -> {"#ff0000"}
      [] name = "width" -> {2, 20}
      [] name = "opacity" -> {0, 100}

\* onChange of a field of the form, and the effect that follows a change of
\* lineColor, lineOpacity or lineWidth.
HandleChange(name, value) ==
    /\ value # formValues[name]
    /\ LET error == validateForm(name, value)
           next == IF error = "" THEN Applied(name, value) ELSE Brush
       IN  /\ lineWidth' = next.lineWidth
           /\ lineColor' = next.lineColor
           /\ lineOpacity' = next.lineOpacity
           /\ IF next # Brush
              THEN /\ Changes < MaxChanges
                   /\ Remount
                   /\ ctx' = Effect(ctx)
                   /\ undoStack' = SaveState(undoStack, canvas)
              ELSE /\ formValues' = [formValues EXCEPT ![name] = value]
                   /\ errors' = [errors EXCEPT ![name] = error]
                   /\ UNCHANGED <<ctx, undoStack>>
    /\ run' = Other
    /\ probe' = IF Brush' # Brush THEN Probe("change", canvas) ELSE NoProbe
    /\ UNCHANGED <<isDrawing, redoStack, canvas, images, begun>>

\* ------------------------------------------------------------ Next
Next ==
    \/ \E p \in Points : StartDrawing(p)
    \/ \E p \in Points : Draw(p)
    \/ EndDrawing
    \/ HandleUndo
    \/ HandleRedo
    \/ \E k \in 1..MaxPending : ImageLoaded(k)
    \/ \E k \in 1..MaxPending : ImageError(k)
    \/ \E name \in {"color", "width", "opacity"} :
          \E value \in FieldValues(name) : HandleChange(name, value)

Spec == Init /\ [][Next]_vars

\* ------------------------------------------------------------ claims
Quiet == images = <<>>

\* C1: after mount and N completed strokes with nothing else in between,
\* the undo stack holds N + 1 entries and the redo stack none.
C1_StrokesGrowPast ==
    OnlyStrokes(run) => (Len(undoStack) = Len(run) + 1 /\ redoStack = <<>>)

C1_Witness ==
    run = <<"stroke", "stroke">> /\ Len(undoStack) = 3 /\ redoStack = <<>>

\* C2: a mouse-up while drawing appends exactly one snapshot, that of the
\* canvas, to the undo stack and leaves the redo stack empty, whatever the
\* redo stack held.
C2_CommitClearsFuture ==
    [][(EndDrawing /\ isDrawing) =>
          /\ undoStack' = Append(undoStack, ToDataURL(canvas))
          /\ redoStack' = <<>>]_vars

\* The commit of the second stroke found the first one on the redo stack.
C2_Witness ==
    run = <<"stroke", "undo", "stroke">> /\ Len(undoStack) = 2 /\ redoStack = <<>>

\* C3: an undo with one entry on the undo stack changes neither stack nor
\* the canvas, and starts no restore.
C3_UndoAtBottom ==
    [][(HandleUndo /\ Len(undoStack) = 1) =>
          UNCHANGED <<undoStack, redoStack, canvas, images>>]_vars

C3_Witness ==
    run = <<"undo">> /\ Len(undoStack) = 1 /\ redoStack = <<>> /\ Quiet

\* C4: a redo with an empty redo stack changes neither stack nor the
\* canvas, and starts no restore.
C4_RedoAtTop ==
    [][(HandleRedo /\ redoStack = <<>>) =>
          UNCHANGED <<undoStack, redoStack, canvas, images>>]_vars

C4_Witness ==
    run = <<"redo">> /\ Len(undoStack) = 1 /\ redoStack = <<>> /\ Quiet

\* C5: the undo stack is never empty.
C5_PastNeverEmpty == Len(undoStack) >= 1

\* An undo has taken the undo stack down to its last entry.
C5_Witness ==
    run = <<"stroke", "undo">> /\ Len(undoStack) = 1 /\ Len(redoStack) = 1

\* C6: whenever no stroke is in progress, the last entry of the undo stack
\* is the snapshot of what the canvas shows.
C6_LastPastIsSurface ==
    ~isDrawing => Last(undoStack) = ToDataURL(canvas)

\* C7: an undo taken with more than one entry on the undo stack and the
\* redo right after it leave the canvas, once their restores are over, as
\* it was before the undo.
C7_UndoRedoRoundTrip ==
    (probe.phase = "redo" /\ Quiet) => canvas = probe.before

\* The load of a pending image draws that image, and nothing else, on the
\* canvas.
LoadDraws ==
    \A k \in 1..Len(images) : ImageLoaded(k) => canvas' = Decode(images[k])

\* C8: an undo with more than one entry on the undo stack moves the last
\* entry of the undo stack to the front of the redo stack, keeps the other
\* entries of both in order, and restores the canvas from the entry that is
\* now last on the undo stack: it starts the load of that entry, and the
\* load draws it.
C8_UndoMovesLast ==
    /\ [][(HandleUndo /\ Len(undoStack) > 1) =>
             /\ undoStack' = SubSeq(undoStack, 1, Len(undoStack) - 1)
             /\ redoStack' = <<undoStack[Len(undoStack)]>> \o redoStack
             /\ images' = Append(images, undoStack[Len(undoStack) - 1])]_vars
    /\ [][LoadDraws]_vars

\* The second of two undos put its entry ahead of the first one's.
C8_Witness ==
    /\ run = <<"stroke", "stroke", "undo", "undo">>
    /\ Len(undoStack) = 1 /\ Len(redoStack) = 2
    /\ Quiet /\ canvas = Decode(undoStack[1])

\* C9: a redo with a non-empty redo stack moves the first entry of the redo
\* stack to the end of the undo stack, keeps the other entries of both in
\* order, and restores the canvas from that entry: it starts the load of
\* that entry, and the load draws it.
C9_RedoMovesFirst ==
    /\ [][(HandleRedo /\ redoStack # <<>>) =>
             /\ redoStack' = SubSeq(redoStack, 2, Len(redoStack))
             /\ undoStack' = undoStack \o <<redoStack[1]>>
             /\ images' = Append(images, redoStack[1])]_vars
    /\ [][LoadDraws]_vars

\* A redo took the first of two entries off the redo stack.
C9_Witness ==
    /\ run = <<"stroke", "stroke", "undo", "undo", "redo">>
    /\ Len(undoStack) = 2 /\ Len(redoStack) = 1
    /\ Quiet /\ canvas = Decode(undoStack[2])

\* C10: in the run stroke A, stroke B, undo, undo, redo, the two undos leave
\* a blank canvas, one entry on the undo stack and two on the redo stack;
\* the redo leaves stroke A alone on the canvas, two entries on the undo
\* stack and one on the redo stack.
C10_TwoUndosOneRedo ==
    /\ (run = <<"stroke", "stroke", "undo", "undo">> /\ Quiet) =>
          (canvas = Blank /\ Len(undoStack) = 1 /\ Len(redoStack) = 2)
    /\ (run = <<"stroke", "stroke", "undo", "undo", "redo">> /\ Quiet) =>
          (canvas = Decode(undoStack[2]) /\ Len(undoStack) = 2 /\ Len(redoStack) = 1)

\* The path of the last stroke as the mouse traced it: closePath added a
\* closing point to a path with a segment.
Traced == IF Len(ctx.path) > 1 THEN Front(ctx.path) ELSE ctx.path

\* What the first n points of a path paint on a blank canvas under the
\* context's style: one stroke() of the path so far for each lineTo.
RECURSIVE Painted(_, _)
Painted(path, n) ==
    IF n < 2
    THEN Blank
    ELSE Stroke([ctx EXCEPT !.path = SubSeq(path, 1, n)], Painted(path, n - 1))

\* C11: in the run stroke A, undo, stroke B, once stroke B is committed the
\* redo stack is empty and the undo stack is exactly the blank snapshot
\* followed by the snapshot of a canvas with stroke B and without stroke A.
C11_UndoThenStroke ==
    run = <<"stroke", "undo", "stroke">> =>
        /\ redoStack = <<>>
        /\ undoStack = <<ToDataURL(Blank), ToDataURL(Painted(Traced, Len(Traced)))>>

\* C12: the initialization, at mount and on every change of the brush,
\* leaves the undo stack with one entry, the snapshot of the canvas as it
\* is, and the redo stack empty.
C12_InitializeResets ==
    /\ (run = <<>> /\ Changes = 0) =>
          (undoStack = <<ToDataURL(Blank)>> /\ redoStack = <<>>)
    /\ probe.phase = "change" =>
          (undoStack = <<ToDataURL(canvas)>> /\ redoStack = <<>>)

\* A snapshot keeps the alpha of every pixel of the canvas it was taken of.
KeepsAlpha(cv) == \A i \in Pixels : Decode(ToDataURL(cv))[i].a = cv[i].a

\* C13: the load of a restore replaces the whole canvas by the snapshot
\* drawn at full opacity, whatever the brush's opacity, and leaves the
\* brush's opacity as it was; a snapshot holds the alpha of the canvas it
\* was taken of, so a semi-transparent stroke undone and redone comes back
\* with the alpha it was drawn with.
C13_RestoreAtFullOpacity ==
    /\ [][\A k \in 1..Len(images) :
            ImageLoaded(k) =>
                /\ canvas' = Decode(images[k])
                /\ \A i \in Pixels : canvas'[i].a = images[k][i].a
                /\ ctx'.globalAlpha = ctx.globalAlpha
                /\ lineOpacity' = lineOpacity]_vars
    /\ [][(EndDrawing /\ isDrawing) =>
            (KeepsAlpha(canvas) /\ Decode(Last(undoStack')) = canvas)]_vars

\* A stroke drawn at a tenth of full opacity came back after an undo and
\* the redo, as it was.
C13_Witness ==
    /\ probe.phase = "redo" /\ Quiet /\ ~isDrawing
    /\ ctx.globalAlpha = 10 /\ lineOpacity = 10
    /\ canvas = probe.before /\ canvas # Blank
    /\ canvas = Decode(Last(undoStack))

\* C14: when the image of a restore fails to decode, the restore is
\* dropped: the canvas, the context, the stacks and the drawing state stay
\* as they were, and the handlers go on taking requests.
C14_DecodeFailure ==
    /\ [][\A k \in 1..Len(images) :
            ImageError(k) =>
                /\ images' = Remove(images, k)
                /\ UNCHANGED <<canvas, ctx, state, undoStack, redoStack>>]_vars
    /\ [](probe.phase = "error" =>
            /\ canvas = probe.before
            /\ ENABLED HandleUndo /\ ENABLED HandleRedo /\ ENABLED EndDrawing)

\* The image of an undo failed: the stroke that was undone is still on the
\* canvas, and no restore is pending.
C14_Witness ==
    /\ probe.phase = "error" /\ Quiet
    /\ canvas # Blank /\ canvas # Decode(Last(undoStack))
    /\ Len(undoStack) = 1 /\ Len(redoStack) = 1

\* C15: a width outside 3..20 or an opacity outside 1..100 (percent) stays
\* in its form field with a validation error and leaves the brush of the
\* drawing state as it was; the width of the drawing state is always within
\* 3..20 and its opacity within 0.01..1.
C15_InvalidInputNotApplied ==
    /\ [](lineWidth.v \in 3..20 /\ lineOpacity \in 1..100)
    /\ [][\A name \in {"width", "opacity"} : \A value \in FieldValues(name) :
            (HandleChange(name, value) /\ validateForm(name, value) # "") =>
                /\ formValues'[name] = value
                /\ errors'[name] = validateForm(name, value)
                /\ UNCHANGED <<lineWidth, lineOpacity, lineColor, ctx>>]_vars

\* A width of 2 is in the form with its error, the drawing state has 5.
C15_Witness ==
    /\ formValues.width = 2
    /\ errors.width = "Width must be between 3 and 20"
    /\ lineWidth = Num(5) /\ ctx.lineWidth = 5

\* C16: a mouse-up while drawing ends the stroke and appends one snapshot,
\* that of the canvas with everything the stroke painted; a mouse-up while
\* idle appends nothing and leaves both stacks as they were.
C16_OneCommitPerStroke ==
    /\ [][(EndDrawing /\ isDrawing) =>
            /\ ~isDrawing'
            /\ Len(undoStack') = Len(undoStack) + 1
            /\ Front(undoStack') = undoStack
            /\ Decode(Last(undoStack')) = canvas
            /\ canvas' = canvas]_vars
    /\ [][(EndDrawing /\ ~isDrawing) =>
            UNCHANGED <<isDrawing, undoStack, redoStack, canvas, ctx>>]_vars

\* One stroke, committed once, with its paint in the snapshot.
C16_Witness ==
    /\ run = <<"stroke">> /\ ~isDrawing /\ Quiet
    /\ Len(undoStack) = 2 /\ canvas # Blank
    /\ Decode(undoStack[2]) = Painted(Traced, Len(Traced))
    /\ canvas = Painted(Traced, Len(Traced))

\* C17: restores are not serialized. An undo or a redo only starts the
\* load of its snapshot and leaves the canvas as it is; a commit does not
\* wait for the loads that are pending and snapshots the canvas as it is.
\* So there is a run in which a stroke is drawn and committed between an
\* undo and the landing of its restore, with a snapshot that does not
\* reflect the restore (C17_Witness).
C17_RestoresNotSerialized ==
    /\ [][((HandleUndo \/ HandleRedo) /\ undoStack' # undoStack) =>
            /\ images' = Append(images, Last(undoStack'))
            /\ canvas' = canvas]_vars
    /\ [][(EndDrawing /\ isDrawing /\ images # <<>>) =>
            /\ images' = images
            /\ Last(undoStack') = ToDataURL(canvas)]_vars

\* Stroke A, undo, stroke B drawn and committed while the undo's image
\* (the blank canvas) is still loading: the snapshot of the commit is not
\* what stroke B paints on the restored canvas.
C17_Witness ==
    /\ run = <<"stroke", "undo", "stroke">> /\ ~isDrawing
    /\ images = <<ToDataURL(Blank)>>
    /\ Len(Traced) > 1
    /\ Len(undoStack) = 2 /\ undoStack[2] = ToDataURL(canvas)
    /\ undoStack[2] # ToDataURL(Painted(Traced, Len(Traced)))

\* C18: a mouse-move while idle does nothing: the canvas, the path, both
\* stacks and the idle state stay as they were.
C18_IdleMoveIgnored ==
    [][\A p \in Points :
          (Draw(p) /\ ~isDrawing) =>
              UNCHANGED <<canvas, ctx, undoStack, redoStack, isDrawing>>]_vars

\* The mouse moved over a painted canvas after a stroke, with nothing in
\* progress.
C18_Witness ==
    /\ probe.phase = "move" /\ ~isDrawing
    /\ canvas = probe.before /\ canvas # Blank
    /\ Len(ctx.path) > 1 /\ Len(undoStack) > 1

\* ------------------------------------------------------------ one stroke
\* The canvas under the mouse and the brush form alone, with the mouse at
\* any pixel and one more mouse-move to a path than MaxPath allows.
LongPath == MaxPath + 1

NextStroke ==
    \/ \E p \in Pixels : StartDrawing(p)
    \/ \E p \in Pixels : DrawUpTo(p, LongPath)
    \/ EndDrawing
    \/ \E name \in {"color", "width", "opacity"} :
          \E value \in FieldValues(name) : HandleChange(name, value)

SpecStroke == Init /\ [][NextStroke]_vars

\* The segment the last lineTo added to the path.
LastSegment == SubSeq(ctx.path, Len(ctx.path) - 1, Len(ctx.path))

\* C19: a change of the brush during a stroke does not reach back: after
\* the next mouse-move of the stroke, the pixels that the segment this
\* mouse-move added does not cover are as they were before the change.
C19_ChangeNotRetroactive ==
    (probe.phase = "repaint" /\ isDrawing) =>
        \A i \in Pixels :
            i \notin Covered(LastSegment, ctx.lineWidth) =>
                canvas[i] = probe.before[i]

\* The run is a scenario that ends with a click on Undo or Redo.
EndsWithClick ==
    run # <<>> /\ run # Other /\ run[Len(run)] \in {"undo", "redo"}

\* C20: after strokes followed by undos and redos, with no stroke in
\* progress and no image that failed, once no restore is pending the
\* canvas shows the last entry of the undo stack, in whatever order the
\* loads landed.
C20_SettlesOnLastPast ==
    (EndsWithClick /\ ~isDrawing /\ Quiet) => canvas = Decode(Last(undoStack))

====
